---------------------------- MODULE Spec2Model ----------------------------
(***************************************************************************)
(* Model of the extractive summarizer service of src/main.py:              *)
(*   - ExtractiveSummarizer (clean_text, calculate_word_frequency,         *)
(*     score_sentences, summarize), lines 97-165;                          *)
(*   - the /summarize handler (lines 240-293) with save_summary and        *)
(*     log_api_call (lines 199-225), and the DELETE /history/{id} handler  *)
(*     (lines 361-376): the handlers that write the two tables.  The rows  *)
(*     of a table are kept in insertion order; the timestamp columns the   *)
(*     database fills in are left out.                                     *)
(*                                                                         *)
(* A string is a sequence of one-character strings.  Python floats are     *)
(* modelled by exact fractions <<numerator, denominator>>.                 *)
(***************************************************************************)
EXTENDS Integers, Sequences, FiniteSets

VARIABLES
    raw,        \* clean_text harness: the string first passed to clean_text
    text,       \* clean_text harness: the current string
    prev,       \* clean_text harness: the string before the last call
    calls,      \* clean_text harness: how often clean_text was applied
    doc,        \* summarizer call: the document passed in
    k,          \* summarizer call: num_sentences
    pc,         \* summarizer call: "ready", or the method that has returned
    out,        \* summarizer call: the locals and the return value
    summaries,  \* table summaries (rows in insertion order)
    analytics,  \* table analytics (rows in insertion order)
    next_id,    \* AUTOINCREMENT counter of table summaries
    resp        \* response of the last request handled

normVars == <<raw, text, prev, calls>>
coreVars == <<doc, k, pc, out>>
apiVars  == <<summaries, analytics, next_id, resp>>
vars     == <<raw, text, prev, calls, doc, k, pc, out, summaries, analytics, next_id, resp>>

---------------------------------------------------------------------------
(* Character classes of the regular expressions in clean_text.             *)

\* [a-zA-Z0-9]: the characters str.isalnum accepts.
Alnum == {"a", "b", "c", "B"}

\* \w of Python's re: the alphanumerics and the underscore.
WordChars == Alnum \cup {"_"}

\* \s of Python's re, and what str.strip removes.
Whitespace == {" ", "\t", "\n"}

\* The punctuation the character class of line 104 lists beside \w and \s.
KeptPunct == {".", ",", "!", "?", "-"}

\* Characters outside every class above.
Symbols == {"@", "#"}

Char == WordChars \cup Whitespace \cup KeptPunct \cup Symbols

---------------------------------------------------------------------------
(* ExtractiveSummarizer.clean_text, lines 101-105.                         *)

\* re.sub(r'\s+', ' ', text): every maximal run of whitespace becomes " ":
\* the first character of a run is replaced by " ", the others go.
CollapseWhitespace(s) ==
    LET marked == [i \in 1..Len(s) |->
                      IF s[i] \notin Whitespace THEN s[i]
                      ELSE IF i > 1 /\ s[i - 1] \in Whitespace THEN "" ELSE " "]
    IN  SelectSeq(marked, LAMBDA c : c # "")

\* The character class read as "alphanumeric" only: the underscore goes too.
KeptChar_AlnumOnly(c) == c \in Alnum \/ c \in Whitespace \/ c \in KeptPunct

KeptChar(c) == c \in WordChars \/ c \in Whitespace \/ c \in KeptPunct

\* re.sub(r'[^\w\s.,!?-]', '', text): delete every character outside the class.
RemoveSymbols(s) == SelectSeq(s, KeptChar)

\* The positions of s that hold no whitespace.
Solid(s) == {i \in 1..Len(s) : s[i] \notin Whitespace}

Min(S) == CHOOSE x \in S : \A y \in S : x <= y

Max(S) == CHOOSE x \in S : \A y \in S : y <= x

\* str.lstrip()
LStrip(s) == IF Solid(s) = {} THEN << >> ELSE SubSeq(s, Min(Solid(s)), Len(s))

\* str.rstrip()
RStrip(s) == IF Solid(s) = {} THEN << >> ELSE SubSeq(s, 1, Max(Solid(s)))

\* str.strip()
Strip(s) == RStrip(LStrip(s))

clean_text(s) == Strip(RemoveSymbols(CollapseWhitespace(s)))

---------------------------------------------------------------------------
(* Inputs of the clean_text harness.                                       *)

MaxLen == 5

NormChars == {"b", "_", " ", "\t", ".", "@"}

Strings(n) == UNION {[1..m -> NormChars] : m \in 0..n}

MaxCalls == 2

NormIdle == /\ raw = << >> /\ text = << >> /\ prev = << >> /\ calls = 0
CoreIdle == /\ doc = << >> /\ k = 0 /\ pc = "idle" /\ out = << >>
ApiIdle  == /\ summaries = << >> /\ analytics = << >> /\ next_id = 1
            /\ resp = [n |-> 0, endpoint |-> "", status |-> 0, detail |-> ""]

InitNorm ==
    /\ raw \in Strings(MaxLen)
    /\ text = raw
    /\ prev = << >>
    /\ calls = 0
    /\ CoreIdle
    /\ ApiIdle

\* One call text = clean_text(text).
CleanText ==
    /\ calls < MaxCalls
    /\ text' = clean_text(text)
    /\ prev' = text
    /\ calls' = calls + 1
    /\ UNCHANGED <<raw, doc, k, pc, out, summaries, analytics, next_id, resp>>

NextNorm == CleanText

SpecNorm == InitNorm /\ [][NextNorm]_vars

---------------------------------------------------------------------------
(* The NLTK capabilities the summarizer consumes (lines 30-31, 99).  They   *)
(* are library code, modelled by what they do on the model's alphabet.     *)

\* Characters that end a sentence.
Terminators == {".", "!", "?"}

\* The elements of a set of numbers, rising.
Sorted(S) ==
    [j \in 1..Cardinality(S) |-> CHOOSE x \in S : Cardinality({y \in S : y <= x}) = j]

\* A sentence ends at a terminator that is followed by whitespace and more
\* text, and at the end of the text.
SentenceEnds(s) ==
    {i \in 1..Len(s) - 1 :
        /\ s[i] \in Terminators
        /\ s[i + 1] \in Whitespace
        /\ \E j \in i + 1..Len(s) : s[j] \notin Whitespace}
    \cup {Len(s)}

\* The sentences in order, each without surrounding whitespace.
SplitSentences(s) ==
    LET ends == Sorted(SentenceEnds(s))
    IN  [j \in 1..Len(ends) |->
            Strip(SubSeq(s, IF j = 1 THEN 1 ELSE ends[j - 1] + 1, ends[j]))]

\* nltk.tokenize.sent_tokenize: the empty text has no sentence, a text with
\* no boundary is one sentence.
sent_tokenize(s) == IF Strip(s) = << >> THEN << >> ELSE SplitSentences(s)

\* str.lower()
LowerChar(c) == IF c = "B" THEN "b" ELSE c

Lower(s) == [i \in 1..Len(s) |-> LowerChar(s[i])]

\* Punctuation the word tokenizer always makes a token of its own.
SplitPunct == {",", "!", "?", "@", "#"}

\* A finished chunk: a final period is a token of its own.
Flush(cur) ==
    IF cur = << >> THEN << >>
    ELSE IF Len(cur) > 1 /\ cur[Len(cur)] = "." /\ cur[Len(cur) - 1] # "."
         THEN <<SubSeq(cur, 1, Len(cur) - 1), <<".">>>>
         ELSE <<cur>>

RECURSIVE Concat(_)
Concat(parts) == IF parts = << >> THEN << >> ELSE Head(parts) \o Concat(Tail(parts))

\* Characters that stay inside a token.
InToken(c) == c \notin Whitespace /\ c \notin SplitPunct

\* Where a token starts: at a split punctuation, and at the first character
\* of a maximal run of token characters.
TokenStarts(s) ==
    {i \in 1..Len(s) :
        \/ s[i] \in SplitPunct
        \/ InToken(s[i]) /\ (i = 1 \/ ~InToken(s[i - 1]))}

\* The last position of the run of token characters that starts at p.
RunEnd(s, p) == Min({q \in p..Len(s) : q = Len(s) \/ ~InToken(s[q + 1])})

Tokens(s) ==
    LET starts == Sorted(TokenStarts(s))
    IN  Concat([j \in 1..Len(starts) |->
                   IF s[starts[j]] \in SplitPunct THEN <<<<s[starts[j]]>>>>
                   ELSE Flush(SubSeq(s, starts[j], RunEnd(s, starts[j])))])

\* nltk.tokenize.word_tokenize
word_tokenize(s) == Tokens(s)

\* str.isalnum(): non-empty and every character alphanumeric.
isalnum(w) == w # << >> /\ \A i \in 1..Len(w) : w[i] \in Alnum

\* self.stop_words (line 99): the English stopwords among the model's words.
stop_words == {<<"a">>}

---------------------------------------------------------------------------
(* Fractions <<n, d>> with d > 0, standing for Python's float n / d.       *)

Zero == <<0, 1>>

RatAdd(p, q) == <<p[1] * q[2] + q[1] * p[2], p[2] * q[2]>>

RatDiv(p, n) == <<p[1], p[2] * n>>

RatEq(p, q) == p[1] * q[2] = q[1] * p[2]

RatLess(p, q) == p[1] * q[2] < q[1] * p[2]

---------------------------------------------------------------------------
(* ExtractiveSummarizer.calculate_word_frequency, lines 107-119.           *)

\* Number of occurrences of w in the list ws: Counter(words)[w].
Count(ws, w) == Cardinality({i \in 1..Len(ws) : ws[i] = w})

Range(ws) == {ws[i] : i \in 1..Len(ws)}

\* Lines 109-110: the alphanumeric tokens of the lowercased text that are
\* no stopwords.
ContentWords(s) ==
    SelectSeq(word_tokenize(Lower(s)), LAMBDA w : isalnum(w) /\ w \notin stop_words)

\* The divisor taken to be the number of words instead of the highest count.
max_freq_TotalWords(ws) == IF ws = << >> THEN 1 ELSE Len(ws)

\* Line 113: max_freq = max(freq.values()) if freq else 1
max_freq(ws) ==
    IF ws = << >> THEN 1 ELSE Max({Count(ws, w) : w \in Range(ws)})

\* Lines 112-119: the map word -> count / max_freq.
calculate_word_frequency(s) ==
    LET words == ContentWords(s)
    IN  [w \in Range(words) |-> <<Count(words, w), max_freq(words)>>]

---------------------------------------------------------------------------
(* ExtractiveSummarizer.score_sentences, lines 121-143.                    *)

\* Line 126-127: the alphanumeric tokens of the lowercased sentence.
SentenceWords(sentence) == SelectSeq(word_tokenize(Lower(sentence)), isalnum)

RECURSIVE SumFreq(_, _)
\* Lines 132-134: score += word_freq[word] for the words in the map.
SumFreq(ws, word_freq) ==
    IF ws = << >> THEN Zero
    ELSE IF Head(ws) \in DOMAIN word_freq
         THEN RatAdd(word_freq[Head(ws)], SumFreq(Tail(ws), word_freq))
         ELSE SumFreq(Tail(ws), word_freq)

\* Lines 133-135: word_count counts the words that are in the map.
word_count(ws, word_freq) ==
    Cardinality({i \in 1..Len(ws) : ws[i] \in DOMAIN word_freq})

\* Lines 129-141 for one sentence.
sentence_score(sentence, word_freq) ==
    LET ws == SentenceWords(sentence)
        n  == word_count(ws, word_freq)
    IN  IF n > 0 THEN RatDiv(SumFreq(ws, word_freq), n) ELSE Zero

\* The dict index -> score; enumerate() counts the sentences from 0.
score_sentences(sentences, word_freq) ==
    [i \in 0..Len(sentences) - 1 |-> sentence_score(sentences[i + 1], word_freq)]

---------------------------------------------------------------------------
(* ExtractiveSummarizer.summarize, lines 145-165.                          *)

\* dict.items() in insertion order: the pairs <<index, score>>, index rising.
Items(scores) == [j \in 1..Cardinality(DOMAIN scores) |-> <<j - 1, scores[j - 1]>>]

RECURSIVE InsertDesc(_, _)
\* x goes before the first element with a strictly lower score.
InsertDesc(sorted, x) ==
    IF sorted = << >> THEN <<x>>
    ELSE IF RatLess(Head(sorted)[2], x[2])
         THEN <<x>> \o sorted
         ELSE <<Head(sorted)>> \o InsertDesc(Tail(sorted), x)

RECURSIVE SortedDescFrom(_, _)
SortedDescFrom(items, acc) ==
    IF items = << >> THEN acc
    ELSE SortedDescFrom(Tail(items), InsertDesc(acc, Head(items)))

Reverse(seq) == [i \in 1..Len(seq) |-> seq[Len(seq) + 1 - i]]

\* An ascending sort reversed: items of equal score come out in reverse order.
SortedByScoreDesc_Reversed(items) == SortedDescFrom(Reverse(items), << >>)

\* sorted(items, key=lambda x: x[1], reverse=True): by score, highest first;
\* the sort is stable, so items of equal score keep their order.
SortedByScoreDesc(items) == SortedDescFrom(items, << >>)

\* seq[:n] of Python: the first n elements, all but the last -n for n < 0.
Take(seq, n) ==
    IF n >= 0
    THEN SubSeq(seq, 1, IF n < Len(seq) THEN n ELSE Len(seq))
    ELSE SubSeq(seq, 1, Len(seq) + n)

RECURSIVE InsertAsc(_, _)
InsertAsc(sorted, x) ==
    IF sorted = << >> THEN <<x>>
    ELSE IF x[1] < Head(sorted)[1]
         THEN <<x>> \o sorted
         ELSE <<Head(sorted)>> \o InsertAsc(Tail(sorted), x)

RECURSIVE SortedAscFrom(_, _)
SortedAscFrom(items, acc) ==
    IF items = << >> THEN acc
    ELSE SortedAscFrom(Tail(items), InsertAsc(acc, Head(items)))

\* The second sort left out: the sentences stay in ranking order.
SortedByIndex_Skipped(items) == items

\* sorted(top_sentences, key=lambda x: x[0]): by sentence index, rising.
SortedByIndex(items) == SortedAscFrom(items, << >>)

RECURSIVE Join(_)
\* ' '.join(parts)
Join(parts) ==
    IF parts = << >> THEN << >>
    ELSE IF Len(parts) = 1 THEN Head(parts)
         ELSE Head(parts) \o <<" ">> \o Join(Tail(parts))

\* Lines 156-159.
TopSentences(sentence_scores, num_sentences) ==
    Take(SortedByScoreDesc(Items(sentence_scores)), num_sentences)

\* The comparison of line 150 made strict.
ShortCircuit_Strict(sentences, num_sentences) == Len(sentences) < num_sentences

\* Line 150: the document is returned whole.
ShortCircuit(sentences, num_sentences) == Len(sentences) <= num_sentences

\* The locals of summarize when it returns; ranked tells which return it was.
summarize(document, num_sentences) ==
    LET cleaned   == clean_text(document)
        sentences == sent_tokenize(cleaned)
    IN  IF ShortCircuit(sentences, num_sentences)
        THEN [text |-> cleaned, sentences |-> sentences, ranked |-> FALSE,
              word_freq |-> << >>, sentence_scores |-> << >>,
              ranking |-> << >>, top_sentences |-> << >>, summary |-> cleaned]
        ELSE LET word_freq       == calculate_word_frequency(cleaned)
                 sentence_scores == score_sentences(sentences, word_freq)
                 ranking         == TopSentences(sentence_scores, num_sentences)
                 top_sentences   == SortedByIndex(ranking)
             IN  [text |-> cleaned, sentences |-> sentences, ranked |-> TRUE,
                  word_freq |-> word_freq, sentence_scores |-> sentence_scores,
                  ranking |-> ranking, top_sentences |-> top_sentences,
                  summary |-> Join([j \in 1..Len(top_sentences) |->
                                       sentences[top_sentences[j][1] + 1]])]

---------------------------------------------------------------------------
(* Direct calls of the summarizer's methods.                               *)

MaxUnits == 3

MaxK == 2

\* num_sentences is an unvalidated int (line 87): negative and zero included.
KRange == -1..MaxK

Bodies == {<<"b">>, <<"c">>, <<"a">>, <<"B">>, <<"a", " ", "b">>, <<"b", " ", "b">>}

Enders == {<<".", " ">>, <<".", " ", "@", " ">>}

Units == {b \o e : b \in Bodies, e \in Enders}

\* Documents of up to MaxUnits sentences.
Documents == {Concat(us) : us \in UNION {[1..m -> Units] : m \in 0..MaxUnits}}

Half == <<1, 2>>

One == <<1, 1>>

\* Frequency maps handed to score_sentences directly.
FreqMaps ==
    { << >>,
      [w \in {<<"b">>} |-> One],
      [w \in {<<"c">>} |-> Half],
      [w \in {<<"b">>, <<"c">>} |-> IF w = <<"b">> THEN Half ELSE One] }

InitCore ==
    /\ doc \in Documents
    /\ k = 0
    /\ pc = "ready"
    /\ out = << >>
    /\ NormIdle
    /\ ApiIdle

\* summarizer.summarize(doc, num_sentences)
Summarize ==
    /\ pc = "ready"
    /\ \E num_sentences \in KRange :
         /\ k' = num_sentences
         /\ out' = summarize(doc, num_sentences)
    /\ pc' = "summarize"
    /\ UNCHANGED <<doc, raw, text, prev, calls, summaries, analytics, next_id, resp>>

\* summarizer.calculate_word_frequency(doc)
CalculateWordFrequency ==
    /\ pc = "ready"
    /\ out' = [words |-> ContentWords(doc), word_freq |-> calculate_word_frequency(doc)]
    /\ pc' = "calculate_word_frequency"
    /\ UNCHANGED <<doc, k, raw, text, prev, calls, summaries, analytics, next_id, resp>>

\* summarizer.score_sentences(sent_tokenize(doc), word_freq)
ScoreSentences ==
    /\ pc = "ready"
    /\ \E word_freq \in FreqMaps :
         out' = [sentences |-> sent_tokenize(doc), word_freq |-> word_freq,
                 sentence_scores |-> score_sentences(sent_tokenize(doc), word_freq)]
    /\ pc' = "score_sentences"
    /\ UNCHANGED <<doc, k, raw, text, prev, calls, summaries, analytics, next_id, resp>>

NextCore == Summarize \/ CalculateWordFrequency \/ ScoreSentences

SpecCore == InitCore /\ [][NextCore]_vars

---------------------------------------------------------------------------
(* The request handlers: /summarize (lines 240-293) and                    *)
(* DELETE /history/{summary_id} (lines 361-376).                           *)

\* Line 261: the least length of the stripped text.
MinTextLength == 50

\* Line 259: source_content = text[:200]
SourcePrefix == 200

\* Line 209: source_content[:500]
StoredPrefix == 500

\* Optional[str] = None: a value that is no string of characters.
None == <<"None">>

\* extract_article_text raising HTTPException (lines 174-196).
Failed == <<"HTTPException">>

\* len(s.split()): the number of maximal runs of non-whitespace.
SplitCount(s) ==
    Cardinality({i \in 1..Len(s) :
                    /\ s[i] \notin Whitespace
                    /\ (i = 1 \/ s[i - 1] \in Whitespace)})

\* Every call also written as a success.
log_api_call_AlwaysTrue(table, endpoint, success) ==
    Append(table, [endpoint |-> endpoint, success |-> TRUE])

\* log_api_call, lines 214-225: one row more in table analytics.
log_api_call(table, endpoint, success) ==
    Append(table, [endpoint |-> endpoint, success |-> success])

\* save_summary, lines 199-212: one row more in table summaries.
save_summary(table, id, source_type, source_content, summary, wc, original_length, method) ==
    Append(table, [id |-> id, source_type |-> source_type,
                   source_content |-> Take(source_content, StoredPrefix),
                   summary |-> summary, word_count |-> wc,
                   original_length |-> original_length, method |-> method])

\* not x, for an Optional[str]
Falsy(x) == x = None \/ x = << >>

\* Lines 246-269 up to the summary: what the handler raises, or the values
\* it goes on with.  extracted is what extract_article_text does for the
\* url (Failed, or the article text); nltk_ok tells whether the NLTK
\* resources load.
Outcome(request, extracted, nltk_ok) ==
    IF Falsy(request.url) /\ Falsy(request.text)
    THEN [status |-> 400, detail |-> "Either 'url' or 'text' must be provided"]
    ELSE IF ~Falsy(request.url) /\ extracted = Failed
    THEN [status |-> 400, detail |-> "Failed to download article"]
    ELSE LET body           == IF ~Falsy(request.url) THEN extracted ELSE request.text
             source_type    == IF ~Falsy(request.url) THEN "url" ELSE "text"
             source_content == IF ~Falsy(request.url) THEN request.url
                               ELSE Take(body, SourcePrefix)
         IN  IF Falsy(body) \/ Len(Strip(body)) < MinTextLength
             THEN [status |-> 400, detail |-> "Text is too short to summarize"]
             ELSE IF ~nltk_ok
             THEN [status |-> 500, detail |-> "LookupError"]
             ELSE LET result == summarize(body, request.sentences)
                  IN  [status |-> 200, detail |-> "",
                       source_type |-> source_type, source_content |-> source_content,
                       original_length |-> SplitCount(body),
                       summary |-> result.summary, sentences |-> result.sentences]

MaxRequests == 3

Rep(c, n) == [i \in 1..n |-> c]

\* Request texts: missing, empty, too short, blank, symbols only, one long
\* word, one long word between blanks, and three sentences.
ApiTexts ==
    { None,
      << >>,
      <<"b", ".", " ", "c", ".">>,
      Rep(" ", MinTextLength + 10),
      Rep("@", MinTextLength),
      Rep("b", MinTextLength - 1),
      Rep("b", MinTextLength),
      <<" ">> \o Rep("b", MinTextLength - 2) \o <<" ">>,
      <<"c", ".", " ", "a", ".", " ">> \o Rep("b", MinTextLength) }

ApiUrls == {None, <<"u">>}

\* What the document-extraction service returns for a url.
Extractions == {Failed, Rep("@", MinTextLength), <<"c", ".", " ">> \o Rep("b", MinTextLength)}

\* Requests with a text, with a url, and with both.
Requests ==
    [url : {None}, text : ApiTexts, method : {"extractive"}, sentences : {1, 5}]
    \cup [url : ApiUrls, text : {None, <<"b", ".", " ", "c", ".">>},
          method : {"extractive"}, sentences : {1, 5}]

InitApi ==
    /\ ApiIdle
    /\ NormIdle
    /\ CoreIdle

\* POST /summarize
HandleSummarize ==
    /\ resp.n < MaxRequests
    /\ \E request \in Requests, nltk_ok \in BOOLEAN :
       \E extracted \in IF Falsy(request.url) THEN {None} ELSE Extractions :
         \E o \in {Outcome(request, extracted, nltk_ok)} :
             IF o.status = 200
             THEN /\ summaries' = save_summary(summaries, next_id, o.source_type,
                                               o.source_content, o.summary,
                                               SplitCount(o.summary),
                                               o.original_length, request.method)
                  /\ next_id' = next_id + 1
                  /\ analytics' = log_api_call(analytics, "/summarize", TRUE)
                  /\ resp' = [n |-> resp.n + 1, endpoint |-> "/summarize",
                              status |-> 200, detail |-> "",
                              summary |-> o.summary, sentences |-> o.sentences]
             ELSE /\ analytics' = log_api_call(analytics, "/summarize", FALSE)
                  /\ resp' = [n |-> resp.n + 1, endpoint |-> "/summarize",
                              status |-> o.status, detail |-> o.detail]
                  /\ UNCHANGED <<summaries, next_id>>
    /\ UNCHANGED <<raw, text, prev, calls, doc, k, pc, out>>

\* DELETE /history/{summary_id}
DeleteSummary ==
    /\ resp.n < MaxRequests
    /\ \E summary_id \in 1..next_id :
         IF \E i \in 1..Len(summaries) : summaries[i].id = summary_id
         THEN /\ summaries' = SelectSeq(summaries, LAMBDA row : row.id # summary_id)
              /\ resp' = [n |-> resp.n + 1, endpoint |-> "/history", status |-> 200,
                          detail |-> "Summary deleted successfully"]
         ELSE /\ summaries' = summaries
              /\ resp' = [n |-> resp.n + 1, endpoint |-> "/history", status |-> 404,
                          detail |-> "Summary not found"]
    /\ UNCHANGED <<analytics, next_id, raw, text, prev, calls, doc, k, pc, out>>

NextApi == HandleSummarize \/ DeleteSummary

SpecApi == InitApi /\ [][NextApi]_vars

---------------------------------------------------------------------------
(* Properties of the request handlers.                                     *)

\* C4: a /summarize request whose text passed the length check and whose
\* normalized text has no sentence fails with an error instead of
\* returning a summary.
C4_EmptyDocumentFails ==
    (resp.endpoint = "/summarize" /\ resp.status = 200) => resp.sentences # << >>

IsPrefix(s, t) == Len(s) <= Len(t) /\ SubSeq(t, 1, Len(s)) = s

SummarizeStep == resp'.endpoint = "/summarize" /\ resp'.n = resp.n + 1

Inserted == Len(summaries') = Len(summaries) + 1 /\ IsPrefix(summaries, summaries')

Rejections ==
    {"Either 'url' or 'text' must be provided", "Text is too short to summarize",
     "Failed to download article"}

\* C10: every /summarize invocation appends exactly one analytics event for
\* "/summarize"; its success flag is true exactly when the invocation
\* inserted one summary record; a rejected invocation inserts none and its
\* event has success = false.
C10_LoggingConsistent ==
    [][SummarizeStep =>
         /\ Len(analytics') = Len(analytics) + 1
         /\ IsPrefix(analytics, analytics')
         /\ analytics'[Len(analytics')].endpoint = "/summarize"
         /\ analytics'[Len(analytics')].success = Inserted
         /\ ~Inserted => summaries' = summaries
         /\ analytics'[Len(analytics')].success = (resp'.status = 200)
         /\ resp'.detail \in Rejections =>
              /\ summaries' = summaries
              /\ analytics'[Len(analytics')].success = FALSE]_vars

\* Both kinds of event are in the log: a request was served, one rejected.
C10_Witness ==
    /\ Len(analytics) >= 2
    /\ \E i, j \in 1..Len(analytics) : analytics[i].success /\ ~analytics[j].success
    /\ Len(summaries) >= 1
    /\ resp.endpoint = "/summarize"
    /\ resp.detail \in Rejections

---------------------------------------------------------------------------
(* Properties of the summarizer's methods.                                 *)

\* C1: when the normalized document splits into at most k sentences,
\* summarize returns exactly clean_text(document).
C1_ShortCircuit ==
    (pc = "summarize" /\ Len(sent_tokenize(clean_text(doc))) <= k) =>
        out.summary = clean_text(doc)

\* A short-circuit return of two or more sentences whose text is not what
\* joining the sentences again would give.
C1_Witness ==
    /\ pc = "summarize"
    /\ ~out.ranked
    /\ Len(out.sentences) >= 2
    /\ Len(out.sentences) = k
    /\ out.summary = clean_text(doc)
    /\ out.summary # Join(out.sentences)

\* The sentence indices of the summary, in the order they are joined.
Selected == [j \in 1..Len(out.top_sentences) |-> out.top_sentences[j][1]]

SelectedSet == {Selected[j] : j \in 1..Len(Selected)}

\* C2: when summarize ranks, the indices of the sentences of the summary
\* are strictly increasing.
C2_OrderPreserved ==
    (pc = "summarize" /\ out.ranked) =>
        /\ \A i, j \in 1..Len(Selected) : i < j => Selected[i] < Selected[j]
        /\ \A i \in 1..Len(Selected) : Selected[i] \in 0..Len(out.sentences) - 1

\* A ranking whose order by score is not the source order.
C2_Witness ==
    /\ pc = "summarize"
    /\ out.ranked
    /\ Len(out.ranking) >= 2
    /\ out.ranking[1][1] > out.ranking[2][1]
    /\ Selected[1] < Selected[2]

\* The score C3 states: the in-map frequencies summed, over the count of
\* all alphanumeric words of the sentence; 0 for a sentence without words.
StatedScore(sentence, word_freq) ==
    LET ws == SentenceWords(sentence)
    IN  IF Len(ws) = 0 THEN Zero ELSE RatDiv(SumFreq(ws, word_freq), Len(ws))

\* C3: score_sentences gives every sentence the sum of the frequencies of
\* its words that are in the map divided by the count of all its
\* alphanumeric words, and 0 when it has no alphanumeric word.
C3_ScoreFormula ==
    pc = "score_sentences" =>
        \A i \in DOMAIN out.sentence_scores :
            RatEq(out.sentence_scores[i],
                  StatedScore(out.sentences[i + 1], out.word_freq))

FreqBound(word_freq) ==
    /\ \A w \in DOMAIN word_freq :
         /\ word_freq[w][2] > 0
         /\ RatLess(Zero, word_freq[w])
         /\ ~RatLess(One, word_freq[w])
    /\ DOMAIN word_freq # {} => \E w \in DOMAIN word_freq : RatEq(word_freq[w], One)

\* C8: a non-empty map returned by calculate_word_frequency has maximum
\* exactly 1 and every value in (0, 1], each value being count / maxCount;
\* with no surviving token the map is empty and the divisor is 1, not 0.
C8_FrequencyBound ==
    /\ pc = "calculate_word_frequency" =>
         /\ FreqBound(out.word_freq)
         /\ DOMAIN out.word_freq = Range(out.words)
         /\ \A w \in DOMAIN out.word_freq :
              /\ out.word_freq[w][1] = Count(out.words, w)
              /\ \A v \in DOMAIN out.word_freq :
                   Count(out.words, v) <= out.word_freq[w][2]
         /\ out.words = << >> => out.word_freq = << >>
    /\ (pc = "summarize" /\ out.ranked) => FreqBound(out.word_freq)

\* A map with a most frequent word and a less frequent one.
C8_Witness ==
    /\ pc = "calculate_word_frequency"
    /\ \E v, w \in DOMAIN out.word_freq :
         /\ RatEq(out.word_freq[v], One)
         /\ RatLess(out.word_freq[w], One)

\* C9: for n > k >= 1 sentences exactly k distinct sentences are selected,
\* and every selected sentence precedes every unselected one in the order
\* "higher score first, equal scores by lower index".
C9_TopK ==
    (pc = "summarize" /\ out.ranked /\ k >= 1) =>
        /\ Cardinality(SelectedSet) = k
        /\ Len(Selected) = k
        /\ SelectedSet \subseteq DOMAIN out.sentence_scores
        /\ \A i \in SelectedSet :
             \A j \in DOMAIN out.sentence_scores \ SelectedSet :
                \/ RatLess(out.sentence_scores[j], out.sentence_scores[i])
                \/ /\ RatEq(out.sentence_scores[j], out.sentence_scores[i])
                   /\ i < j

\* A selection cut between two sentences of equal score.
C9_Witness ==
    /\ pc = "summarize"
    /\ out.ranked
    /\ k >= 1
    /\ \E i \in SelectedSet :
         \E j \in DOMAIN out.sentence_scores \ SelectedSet :
            /\ RatEq(out.sentence_scores[j], out.sentence_scores[i])
            /\ i < j

---------------------------------------------------------------------------
(* Properties of clean_text.                                               *)

NoWhitespaceSeq(s) == SelectSeq(s, LAMBDA c : c \notin Whitespace)

Contains(s, c) == \E i \in 1..Len(s) : s[i] = c

\* C5: clean_text is idempotent: a second call on the output of a first
\* call returns that output unchanged.
C5_Idempotent == calls >= 2 => text = prev

\* C6: the output of clean_text has no two adjacent whitespace characters,
\* no tab or newline, and no leading or trailing whitespace.
C6_WhitespaceCollapsed ==
    calls = 1 =>
        /\ \A i \in 1..Len(text) - 1 :
              ~(text[i] \in Whitespace /\ text[i + 1] \in Whitespace)
        /\ \A i \in 1..Len(text) : text[i] \notin {"\t", "\n"}
        /\ text # << >> => text[1] \notin Whitespace
        /\ text # << >> => text[Len(text)] \notin Whitespace

\* C7 as stated: every character of the output of clean_text is
\* alphanumeric, whitespace or one of . , ! ? - (so an underscore is removed).
C7_OnlyAlnumKept ==
    calls = 1 =>
        \A i \in 1..Len(text) :
            text[i] \in Alnum \cup Whitespace \cup KeptPunct

\* C7 amended: every character of the output of clean_text is a word
\* character (alphanumeric or underscore), whitespace or one of . , ! ? -,
\* and the non-whitespace characters of the output are exactly the word
\* characters and listed punctuation of the input, in order: only the
\* characters outside the class are removed, and the underscore is kept.
C7_CharacterFilter ==
    calls = 1 =>
        /\ \A i \in 1..Len(text) :
              text[i] \in WordChars \cup Whitespace \cup KeptPunct
        /\ NoWhitespaceSeq(text) =
              SelectSeq(raw, LAMBDA c : c \in WordChars \cup KeptPunct)

\* A call that removed a symbol and kept an underscore.
C7_Witness ==
    /\ calls = 1
    /\ Contains(raw, "@")
    /\ Contains(raw, "_")
    /\ Contains(text, "_")
    /\ ~Contains(text, "@")

===========================================================================
